---- MODULE Spec2Model ----
(***************************************************************************)
(* CObjectPool<T> (include/CObjectPool.hpp): a fixed-capacity pool of      *)
(* slots, each holding one element of type T and a bInUse flag.            *)
(*                                                                         *)
(* Every member function is an operator from a pool state (a record) and   *)
(* its arguments to the call's outcome (new pool state, std::expected      *)
(* result, returned element pointer, constructor/destructor calls made).   *)
(* One action per member function applies it to the current state.         *)
(* An element value of T is a small natural number; T() is DefaultValue    *)
(* and T(v) is v.  A pointer to the element of slot i is the index i.      *)
(***************************************************************************)
EXTENDS Integers, Sequences, FiniteSets, TLC

\* ---- bounds of the model ----
MaxSize == 3          \* largest capacity passed to the constructor
MaxVal == 1           \* element values are 0..MaxVal
MaxLeak == 1          \* cap on objectsInUse - (number of slots in use)
MaxThreads == 2       \* threads sharing the pool

\* the value of a default-constructed T
DefaultValue == 0
\* largest value of size_t, the result of decrementing an unsigned zero
\* (stands for 2^64 - 1, written as the largest integer of the checker)
SizeMax == 2147483647

Values == 0 .. MaxVal
\* constructor argument packs: empty (default construction) or one value
ArgLists == {<< >>} \cup {<<v>> : v \in Values}
\* indices callers pass; index poolSize and above are out of range
Positions == 0 .. MaxSize
Sizes == 0 .. MaxSize

VARIABLES
    poolSize,       \* const size_t poolSize
    nextIdx,        \* size_t nextIdx
    objectsInUse,   \* size_t objectsInUse
    pool,           \* std::vector<CObject>: [0..poolSize-1 -> [bInUse, object]]
    live,           \* per slot: T objects constructed and not yet destroyed
    alive,          \* the pool object exists (its destructor has not run)
    found_pos,      \* the caller's variable passed as size_t& found_pos
    last,           \* the most recent call: its arguments, outcome and pre-state
    run,            \* calls made since construction, while all were UseNext/UseNextReplace
    lock,           \* the external lock: 0 when free, else the thread that holds it
    held            \* per slot: the threads it was handed to since it was last freed

vars == <<poolSize, nextIdx, objectsInUse, pool, live, alive, found_pos, last, run,
          lock, held>>

\* the pool state as one value
S == [poolSize |-> poolSize, nextIdx |-> nextIdx, objectsInUse |-> objectsInUse,
      pool |-> pool, live |-> live, found_pos |-> found_pos]

\* ---- element construction and destruction ----
\* ::new(&pool[pos].object) T(args...)
Construct(args) == IF Len(args) = 0 THEN DefaultValue ELSE args[1]

\* one more live T in slot pos (placement new)
Constructed(lv, pos) == [lv EXCEPT ![pos] = @ + 1]
\* one fewer live T in slot pos (std::destroy_at on a T*)
Destroyed(lv, pos) == [lv EXCEPT ![pos] = @ - 1]

\* unsigned decrement of a size_t
Decrement(n) == IF n = 0 THEN SizeMax ELSE n - 1

\* outcome of a call
Outcome(s, res, ret, flag, events) ==
    [s |-> s, res |-> res, ret |-> ret, flag |-> flag, events |-> events]

\* ---- the constructor ----
\* the loop of placement-new calls over pos = 0 .. size-1
RECURSIVE ConstructAll(_, _, _)
ConstructAll(lv, size, pos) ==
    IF pos < size THEN ConstructAll(Constructed(lv, pos), size, pos + 1) ELSE lv

\* std::forward<Args>(args)... : what the argument pack can hold after it has
\* been forwarded to a constructor of T once. The pack is writable when T's
\* constructor gets the caller's own object: an rvalue (T may move from it,
\* which leaves it valid but unspecified) or a non-const lvalue (Args is T&,
\* and the constructor may change what it refers to: a counter, a stream).
\* After the forward a writable pack holds any value, also the one it had;
\* a pack that is copied or read through a const reference is what it was.
Forwarded(args, writable) ==
    IF writable /\ Len(args) > 0 THEN {<<m>> : m \in Values} ELSE {args}

\* The loop forwards the same pack once per slot: slot 0 sees the arguments
\* as passed, slot i + 1 sees what the forward for slot i left. A chain gives,
\* for each slot, the pack its constructor was handed.
PackChains(size, args, writable) ==
    {packs \in [0 .. size - 1 -> ArgLists] :
        /\ size > 0 => packs[0] = args
        /\ \A i \in 1 .. size - 1 : packs[i] \in Forwarded(packs[i - 1], writable)}

CObjectPoolCtor(size, packs) ==
    [poolSize |-> size, nextIdx |-> 0, objectsInUse |-> 0,
     pool |-> [i \in 0 .. size - 1 |->
                 [bInUse |-> FALSE, object |-> Construct(packs[i])]],
     live |-> ConstructAll([i \in 0 .. size - 1 |-> 0], size, 0)]

\* ---- the destructor ----
\* std::destroy_at(std::addressof(pool[pos].object)) is given a pointer to
\* the std::byte[sizeof(T)] array, so it destroys the bytes and runs no
\* destructor of T: the count of live T objects is what it was.
DestroyBytes(lv, pos) == lv

RECURSIVE DestroyAll(_, _, _)
DestroyAll(lv, size, pos) ==
    IF pos < size THEN DestroyAll(DestroyBytes(lv, pos), size, pos + 1) ELSE lv

\* ---- free-slot scan ----
\* for (pos = start, idx = 0; idx < poolSize; ++pos, pos %= poolSize, ++idx)
\* the set holding the first pos with !pool[pos].bInUse, or {} when the loop ends
\* the scan as it would be with one iteration too few (idx < poolSize - 1)
Scan_OneShort(p, size, pos, idx) ==
    LET cand == {d \in 0 .. size - 2 : ~ p[(pos + d) % size].bInUse}
    IN  IF cand = {} THEN {}
        ELSE {(pos + (CHOOSE d \in cand : \A e \in cand : d <= e)) % size}

\* the scan as it would be if it always started at slot 0
Scan_LowestFree(p, size, pos, idx) ==
    LET free == {i \in 0 .. size - 1 : ~ p[i].bInUse}
    IN  IF free = {} THEN {} ELSE {CHOOSE i \in free : \A j \in free : i <= j}

RECURSIVE Scan(_, _, _, _)
Scan(p, size, pos, idx) ==
    IF idx < size
    THEN IF p[pos].bInUse THEN Scan(p, size, (pos + 1) % size, idx + 1) ELSE {pos}
    ELSE {}

\* the number of times the body of the scan loop runs
RECURSIVE ScanCount(_, _, _, _)
ScanCount(p, size, pos, idx) ==
    IF idx < size
    THEN IF p[pos].bInUse THEN ScanCount(p, size, (pos + 1) % size, idx + 1) ELSE idx + 1
    ELSE idx

\* UpdateNextIdx as it would be if it just moved the cursor one slot on
UpdateNextIdx_Increment(s) == [s EXCEPT !.nextIdx = @ + 1]

\* UpdateNextIdx as it would be if it searched from slot 0
UpdateNextIdx_LowestFree(s) ==
    LET free == {i \in 0 .. s.poolSize - 1 : ~ s.pool[i].bInUse}
    IN  IF free = {} THEN s
        ELSE [s EXCEPT !.nextIdx = CHOOSE i \in free : \A j \in free : i <= j]

UpdateNextIdx(s) ==
    LET f == Scan(s.pool, s.poolSize, s.nextIdx, 0)
    IN  IF f = {} THEN s ELSE [s EXCEPT !.nextIdx = CHOOSE x \in f : TRUE]

\* ---- member functions ----
\* IsInUse as it would be if it only looked at the range
IsInUse_RangeOnly(s, pos) == pos < s.poolSize

IsInUse(s, pos) == IF pos >= s.poolSize THEN FALSE ELSE s.pool[pos].bInUse

\* Replace as it would be if it forgot to clear the flag
Replace_KeepsFlag(s, pos, args) ==
    IF pos >= s.poolSize
    THEN Outcome(s, "OUT_OF_RANGE", {}, FALSE, << >>)
    ELSE Outcome([s EXCEPT !.live = Constructed(Destroyed(@, pos), pos),
                           !.pool[pos].object = Construct(args)],
                 "OK", {}, FALSE, <<"destroy", "construct">>)

Replace(s, pos, args) ==
    IF pos >= s.poolSize
    THEN Outcome(s, "OUT_OF_RANGE", {}, FALSE, << >>)
    ELSE Outcome([s EXCEPT !.live = Constructed(Destroyed(@, pos), pos),
                           !.pool[pos] = [bInUse |-> FALSE, object |-> Construct(args)]],
                 "OK", {}, FALSE, <<"destroy", "construct">>)

\* Use as it would be without the call of UpdateNextIdx
Use_NoCursorUpdate(s, pos) ==
    IF pos >= s.poolSize
    THEN Outcome(s, "OUT_OF_RANGE", {}, FALSE, << >>)
    ELSE IF s.pool[pos].bInUse
    THEN Outcome(s, "ALREADY_IN_USE", {}, FALSE, << >>)
    ELSE LET s1 == [s EXCEPT !.pool[pos].bInUse = TRUE]
             s3 == [s1 EXCEPT !.objectsInUse = @ + 1]
         IN  Outcome(s3, "OK", {pos}, FALSE, << >>)

\* Use as it would be without the bInUse check
Use_NoInUseCheck(s, pos) ==
    IF pos >= s.poolSize
    THEN Outcome(s, "OUT_OF_RANGE", {}, FALSE, << >>)
    ELSE LET s1 == [s EXCEPT !.pool[pos].bInUse = TRUE]
             s2 == UpdateNextIdx(s1)
             s3 == [s2 EXCEPT !.objectsInUse = @ + 1]
         IN  Outcome(s3, "OK", {pos}, FALSE, << >>)

\* Use as it would be without counting the activated slot
Use_NoIncrement(s, pos) ==
    IF pos >= s.poolSize
    THEN Outcome(s, "OUT_OF_RANGE", {}, FALSE, << >>)
    ELSE IF s.pool[pos].bInUse
    THEN Outcome(s, "ALREADY_IN_USE", {}, FALSE, << >>)
    ELSE LET s1 == [s EXCEPT !.pool[pos].bInUse = TRUE]
             s2 == UpdateNextIdx(s1)
         IN  Outcome(s2, "OK", {pos}, FALSE, << >>)

Use(s, pos) ==
    IF pos >= s.poolSize
    THEN Outcome(s, "OUT_OF_RANGE", {}, FALSE, << >>)
    ELSE IF s.pool[pos].bInUse
    THEN Outcome(s, "ALREADY_IN_USE", {}, FALSE, << >>)
    ELSE LET s1 == [s EXCEPT !.pool[pos].bInUse = TRUE]
             s2 == UpdateNextIdx(s1)
             s3 == [s2 EXCEPT !.objectsInUse = @ + 1]
         IN  Outcome(s3, "OK", {pos}, FALSE, << >>)

\* UseNext as it would be if the scan stopped at the last slot instead of
\* wrapping around
UseNext_NoWrap(s) ==
    LET free == {i \in s.nextIdx .. s.poolSize - 1 : ~ s.pool[i].bInUse}
    IN  IF free = {}
        THEN Outcome(s, "FULL", {}, FALSE, << >>)
        ELSE LET pos == CHOOSE i \in free : \A j \in free : i <= j
                 s1 == [s EXCEPT !.pool[pos].bInUse = TRUE, !.found_pos = pos]
                 s2 == UpdateNextIdx(s1)
                 s3 == [s2 EXCEPT !.objectsInUse = @ + 1]
             IN  Outcome(s3, "OK", {pos}, FALSE, << >>)

\* UseNext as it would be if the scan started one slot after nextIdx
UseNext_StartsAfterCursor(s) ==
    LET start == IF s.poolSize = 0 THEN 0 ELSE (s.nextIdx + 1) % s.poolSize
        f == Scan(s.pool, s.poolSize, start, 0)
    IN  IF f = {}
        THEN Outcome(s, "FULL", {}, FALSE, << >>)
        ELSE LET pos == CHOOSE x \in f : TRUE
                 s1 == [s EXCEPT !.pool[pos].bInUse = TRUE, !.found_pos = pos]
                 s2 == UpdateNextIdx(s1)
                 s3 == [s2 EXCEPT !.objectsInUse = @ + 1]
             IN  Outcome(s3, "OK", {pos}, FALSE, << >>)

\* UseNext as it would be if it wrote found_pos after a failed scan
UseNext_WritesOnFull(s) ==
    LET f == Scan(s.pool, s.poolSize, s.nextIdx, 0)
    IN  IF f = {}
        THEN Outcome([s EXCEPT !.found_pos = s.poolSize], "FULL", {}, FALSE, << >>)
        ELSE LET pos == CHOOSE x \in f : TRUE
                 s1 == [s EXCEPT !.pool[pos].bInUse = TRUE, !.found_pos = pos]
                 s2 == UpdateNextIdx(s1)
                 s3 == [s2 EXCEPT !.objectsInUse = @ + 1]
             IN  Outcome(s3, "OK", {pos}, FALSE, << >>)

\* UseNext as it would be if it reconstructed the slot it hands out
UseNext_Reconstructs(s) ==
    LET f == Scan(s.pool, s.poolSize, s.nextIdx, 0)
    IN  IF f = {}
        THEN Outcome(s, "FULL", {}, FALSE, << >>)
        ELSE LET pos == CHOOSE x \in f : TRUE
                 r == Replace(s, pos, << >>)
                 s1 == [r.s EXCEPT !.pool[pos].bInUse = TRUE, !.found_pos = pos]
                 s2 == UpdateNextIdx(s1)
                 s3 == [s2 EXCEPT !.objectsInUse = @ + 1]
             IN  Outcome(s3, "OK", {pos}, FALSE, r.events)

UseNext(s) ==
    LET f == Scan(s.pool, s.poolSize, s.nextIdx, 0)
    IN  IF f = {}
        THEN Outcome(s, "FULL", {}, FALSE, << >>)
        ELSE LET pos == CHOOSE x \in f : TRUE
                 s1 == [s EXCEPT !.pool[pos].bInUse = TRUE, !.found_pos = pos]
                 s2 == UpdateNextIdx(s1)
                 s3 == [s2 EXCEPT !.objectsInUse = @ + 1]
             IN  Outcome(s3, "OK", {pos}, FALSE, << >>)

\* UseNextReplace as it would be without the call of UpdateNextIdx
UseNextReplace_NoCursorUpdate(s, args) ==
    LET f == Scan(s.pool, s.poolSize, s.nextIdx, 0)
    IN  IF f = {}
        THEN Outcome(s, "FULL", {}, FALSE, << >>)
        ELSE LET pos == CHOOSE x \in f : TRUE
                 r == Replace(s, pos, args)
                 s1 == [r.s EXCEPT !.pool[pos].bInUse = TRUE, !.found_pos = pos]
                 s2 == [s1 EXCEPT !.objectsInUse = @ + 1]
             IN  Outcome(s2, "OK", {pos}, FALSE, r.events)

\* UseNextReplace as it would be if it dropped its arguments and called Replace(pos)
UseNextReplace_IgnoresArgs(s, args) ==
    LET f == Scan(s.pool, s.poolSize, s.nextIdx, 0)
    IN  IF f = {}
        THEN Outcome(s, "FULL", {}, FALSE, << >>)
        ELSE LET pos == CHOOSE x \in f : TRUE
                 r == Replace(s, pos, << >>)
                 s1 == [r.s EXCEPT !.pool[pos].bInUse = TRUE, !.found_pos = pos]
                 s2 == [s1 EXCEPT !.objectsInUse = @ + 1]
                 s3 == UpdateNextIdx(s2)
             IN  Outcome(s3, "OK", {pos}, FALSE, r.events)

\* UseNextReplace as it would be if it reconstructed the slot at nextIdx
\* instead of the slot it found
UseNextReplace_ReplacesAtCursor(s, args) ==
    LET f == Scan(s.pool, s.poolSize, s.nextIdx, 0)
    IN  IF f = {}
        THEN Outcome(s, "FULL", {}, FALSE, << >>)
        ELSE LET pos == CHOOSE x \in f : TRUE
                 r == Replace(s, s.nextIdx, args)
                 s1 == [r.s EXCEPT !.pool[pos].bInUse = TRUE, !.found_pos = pos]
                 s2 == [s1 EXCEPT !.objectsInUse = @ + 1]
                 s3 == UpdateNextIdx(s2)
             IN  Outcome(s3, "OK", {pos}, FALSE, r.events)

UseNextReplace(s, args) ==
    LET f == Scan(s.pool, s.poolSize, s.nextIdx, 0)
    IN  IF f = {}
        THEN Outcome(s, "FULL", {}, FALSE, << >>)
        ELSE LET pos == CHOOSE x \in f : TRUE
                 r == Replace(s, pos, args)
             IN  IF r.res # "OK"
                 THEN Outcome(r.s, r.res, {}, FALSE, r.events)
                 ELSE LET s1 == [r.s EXCEPT !.pool[pos].bInUse = TRUE, !.found_pos = pos]
                          s2 == [s1 EXCEPT !.objectsInUse = @ + 1]
                          s3 == UpdateNextIdx(s2)
                      IN  Outcome(s3, "OK", {pos}, FALSE, r.events)

\* Get as it would be without the bInUse check
Get_NoUseCheck(s, pos) ==
    IF pos >= s.poolSize
    THEN Outcome(s, "OUT_OF_RANGE", {}, FALSE, << >>)
    ELSE Outcome(s, "OK", {pos}, FALSE, << >>)

Get(s, pos) ==
    IF pos >= s.poolSize
    THEN Outcome(s, "OUT_OF_RANGE", {}, FALSE, << >>)
    ELSE IF ~ s.pool[pos].bInUse
    THEN Outcome(s, "NOT_IN_USE", {}, FALSE, << >>)
    ELSE Outcome(s, "OK", {pos}, FALSE, << >>)

\* UnUse as it would be without the bInUse check
UnUse_NoUsedCheck(s, pos, args) ==
    IF pos >= s.poolSize
    THEN Outcome(s, "OUT_OF_RANGE", {}, FALSE, << >>)
    ELSE LET r == Replace(s, pos, args)
             s1 == [r.s EXCEPT !.objectsInUse = Decrement(@)]
         IN  Outcome(s1, "OK", {}, FALSE, r.events)

\* UnUse as it would be if it forgot objectsInUse--
UnUse_NoDecrement(s, pos, args) ==
    IF pos >= s.poolSize
    THEN Outcome(s, "OUT_OF_RANGE", {}, FALSE, << >>)
    ELSE IF ~ s.pool[pos].bInUse
    THEN Outcome(s, "ALREADY_UNUSED", {}, FALSE, << >>)
    ELSE LET r == Replace(s, pos, args)
         IN  Outcome(r.s, "OK", {}, FALSE, r.events)

\* UnUse as it would be if it only cleared the flag and kept the element
UnUse_NoReset(s, pos, args) ==
    IF pos >= s.poolSize
    THEN Outcome(s, "OUT_OF_RANGE", {}, FALSE, << >>)
    ELSE IF ~ s.pool[pos].bInUse
    THEN Outcome(s, "ALREADY_UNUSED", {}, FALSE, << >>)
    ELSE LET s1 == [s EXCEPT !.pool[pos].bInUse = FALSE, !.objectsInUse = Decrement(@)]
         IN  Outcome(s1, "OK", {}, FALSE, << >>)

\* UnUse as it would be if it pointed the search cursor at the freed slot
UnUse_MovesCursor(s, pos, args) ==
    IF pos >= s.poolSize
    THEN Outcome(s, "OUT_OF_RANGE", {}, FALSE, << >>)
    ELSE IF ~ s.pool[pos].bInUse
    THEN Outcome(s, "ALREADY_UNUSED", {}, FALSE, << >>)
    ELSE LET r == Replace(s, pos, args)
             s1 == [r.s EXCEPT !.objectsInUse = Decrement(@), !.nextIdx = pos]
         IN  Outcome(s1, "OK", {}, FALSE, r.events)

UnUse(s, pos, args) ==
    IF pos >= s.poolSize
    THEN Outcome(s, "OUT_OF_RANGE", {}, FALSE, << >>)
    ELSE IF ~ s.pool[pos].bInUse
    THEN Outcome(s, "ALREADY_UNUSED", {}, FALSE, << >>)
    ELSE LET r == Replace(s, pos, args)
             s1 == [r.s EXCEPT !.objectsInUse = Decrement(@)]
         IN  Outcome(s1, "OK", {}, FALSE, r.events)

Size(s) == s.poolSize

ObjectsInUse(s) == s.objectsInUse

\* number of slots whose flag is set
InUseCount(s) == Cardinality({i \in 0 .. s.poolSize - 1 : s.pool[i].bInUse})

\* ---- CIterator ----
\* an iterator is [currentPos, pObject]; pObject is {} for nullptr and {i} for
\* the pointer to the element of slot i; pPool is the pool state passed along
B_BEGIN == TRUE
B_END == FALSE

\* operator[] as it would be if it returned the address of the first slot
Subscript_FirstSlot(s, pos) == {0}

\* T* operator[](pos): the pointer to the element of slot pos
Subscript(s, pos) == {pos}

\* the skip loop as it would be with the bound currentPos <= end
RECURSIVE SkipLoop_OffByOne(_, _)
SkipLoop_OffByOne(s, pos) ==
    IF pos <= s.poolSize /\ ~ IsInUse(s, pos) THEN SkipLoop_OffByOne(s, pos + 1) ELSE pos

\* while (currentPos < end && !pPool->IsInUse(currentPos)) ++currentPos;
RECURSIVE SkipLoop(_, _)
SkipLoop(s, pos) ==
    IF pos < Size(s) /\ ~ IsInUse(s, pos) THEN SkipLoop(s, pos + 1) ELSE pos

\* SkipUnused as it would be without the loop over unused slots
SkipUnused_NoSkip(s, it) ==
    [currentPos |-> it.currentPos,
     pObject |-> IF IsInUse(s, it.currentPos) THEN Subscript(s, it.currentPos) ELSE {}]

SkipUnused(s, it) ==
    LET p == SkipLoop(s, it.currentPos)
    IN  [currentPos |-> p, pObject |-> IF IsInUse(s, p) THEN Subscript(s, p) ELSE {}]

SkipToEnd(s, it) == [currentPos |-> Size(s), pObject |-> {}]

\* CIterator(): currentPos(0), pObject(nullptr), pPool(nullptr)
CIteratorDefault == [currentPos |-> 0, pObject |-> {}]

\* CIterator(CObjectPool* p_pool, const bool b_begin)
CIterator(s, b_begin) ==
    LET it == [currentPos |-> 0, pObject |-> {}]
    IN  IF b_begin THEN SkipUnused(s, it) ELSE SkipToEnd(s, it)

PoolBegin(s) == CIterator(s, B_BEGIN)
PoolEnd(s) == CIterator(s, B_END)

\* operator++(): ++currentPos; SkipUnused();
IterIncrement(s, it) == SkipUnused(s, [it EXCEPT !.currentPos = @ + 1])

\* operator== as it would be if it compared the cursor positions
IterEqual_ByPosition(a, b) == a.currentPos = b.currentPos

\* operator==, operator!=
IterEqual(a, b) == a.pObject = b.pObject
IterNotEqual(a, b) == a.pObject # b.pObject

\* the iterators obtained from it by zero to n calls of operator++
RECURSIVE IterChain(_, _, _)
IterChain(s, it, n) ==
    IF n = 0 THEN {it} ELSE {it} \cup IterChain(s, IterIncrement(s, it), n - 1)

\* operator*: the slot whose element the iterator refers to
IterDeref(it) == CHOOSE i \in it.pObject : TRUE

\* for (auto& obj : pool) { read obj, or obj = w[1] when w is not empty }
\* the pool after the loop and the slots the loop body ran on, in order
RECURSIVE ForLoop(_, _, _, _, _)
ForLoop(s, it, e, w, visited) ==
    IF IterNotEqual(it, e)
    THEN LET i == IterDeref(it)
             s1 == IF Len(w) = 0 THEN s ELSE [s EXCEPT !.pool[i].object = w[1]]
         IN  ForLoop(s1, IterIncrement(s1, it), e, w, Append(visited, i))
    ELSE [s |-> s, visited |-> visited]

RangeFor(s, w) == ForLoop(s, PoolBegin(s), PoolEnd(s), w, << >>)

\* for (it = begin(); it != end(); ++it) { if (remove it) pool.UnUse(index of *it); }
\* rm is the set of slots the loop body removes when the iterator is on them
RECURSIVE ForLoopUnUse(_, _, _, _, _)
ForLoopUnUse(s, it, rm, visited, events) ==
    IF IterNotEqual(it, PoolEnd(s))
    THEN LET i == IterDeref(it)
             u == IF i \in rm THEN UnUse(s, i, << >>) ELSE Outcome(s, "OK", {}, FALSE, << >>)
         IN  ForLoopUnUse(u.s, IterIncrement(u.s, it), rm, Append(visited, i),
                          events \o u.events)
    ELSE [s |-> s, visited |-> visited, it |-> it, events |-> events]

RangeForUnUse(s, rm) == ForLoopUnUse(s, PoolBegin(s), rm, << >>, << >>)

\* ---- the state machine ----
NoArgs == << >>

\* n calls in a row, each UseNext or UseNextReplace, on the caller's side:
\*   for (i = 0; i < n; ++i) pool.UseNext(found_pos);
\* mode 0 calls UseNext every time, mode 1 UseNextReplace every time, mode 2
\* takes turns; the result is the sequence of the outcomes
RECURSIVE Fill(_, _, _)
Fill(s, n, mode) ==
    IF n = 0 THEN << >>
    ELSE LET r == IF mode = 0 \/ (mode = 2 /\ n % 2 = 0)
                  THEN UseNext(s)
                  ELSE UseNextReplace(s, <<MaxVal>>)
         IN  <<r>> \o Fill(r.s, n - 1, mode)

\* what the caller of such a run has in hand afterwards: the indices the
\* successful calls returned, in call order, and the constructor and
\* destructor runs of all the calls
RECURSIVE FillReturned(_, _)
FillReturned(o, k) ==
    IF k = 0 THEN << >>
    ELSE FillReturned(o, k - 1)
         \o (IF o[k].res = "OK" THEN <<CHOOSE i \in o[k].ret : TRUE>> ELSE << >>)

RECURSIVE FillEvents(_, _)
FillEvents(o, k) ==
    IF k = 0 THEN << >> ELSE FillEvents(o, k - 1) \o o[k].events

\* the caller is between two calls: no result is pending
Ready == last.op = "none"

\* the count of calls goes on while the pool has seen nothing but UseNext and
\* UseNextReplace since its construction, up to the call after the pool is full
RunAfter(op) ==
    IF run.fresh /\ op \in {"UseNext", "UseNextReplace"} /\ run.calls <= poolSize
    THEN [fresh |-> TRUE, calls |-> run.calls + 1]
    ELSE [fresh |-> FALSE, calls |-> 0]

\* the effect of one call on the pool and on the caller's record of it
Apply(op, pos, args, r, visited) ==
    /\ nextIdx' = r.s.nextIdx
    /\ objectsInUse' = r.s.objectsInUse
    /\ pool' = r.s.pool
    /\ live' = r.s.live
    /\ found_pos' = r.s.found_pos
    /\ last' = [op |-> op, pos |-> pos, args |-> args, res |-> r.res, ret |-> r.ret,
                flag |-> r.flag, writable |-> FALSE, events |-> r.events, visited |-> visited,
                pre |-> S]
    /\ run' = RunAfter(op)
    /\ UNCHANGED <<poolSize, alive>>

CallV(op, pos, args, r, visited) ==
    /\ Apply(op, pos, args, r, visited)
    /\ UNCHANGED <<lock, held>>

Call(op, pos, args, r) == CallV(op, pos, args, r, << >>)

Init ==
    \E size \in Sizes, args \in ArgLists, writable \in BOOLEAN :
      \E packs \in PackChains(size, args, writable) :
        LET c == CObjectPoolCtor(size, packs)
        IN  /\ Len(args) = 0 => ~ writable
            /\ poolSize = c.poolSize
            /\ nextIdx = c.nextIdx
            /\ objectsInUse = c.objectsInUse
            /\ pool = c.pool
            /\ live = c.live
            /\ alive = TRUE
            /\ found_pos = 0
            /\ last = [op |-> "CObjectPool", pos |-> size, args |-> args, res |-> "OK",
                       ret |-> {}, flag |-> FALSE, writable |-> writable,
                       events |-> [i \in 1 .. size |-> "construct"], visited |-> << >>,
                       pre |-> [c EXCEPT !.live = [i \in 0 .. size - 1 |-> 0]]
                                   @@ [found_pos |-> 0]]
            /\ run = [fresh |-> TRUE, calls |-> 0]
            /\ lock = 0
            /\ held = [i \in 0 .. size - 1 |-> << >>]

DoUse ==
    /\ alive /\ Ready
    /\ \E pos \in Positions : Call("Use", pos, NoArgs, Use(S, pos))

DoUseNext ==
    /\ alive /\ Ready
    /\ Call("UseNext", 0, NoArgs, UseNext(S))

DoUseNextReplace ==
    /\ alive /\ Ready
    /\ \E args \in ArgLists : Call("UseNextReplace", 0, args, UseNextReplace(S, args))

DoGet ==
    /\ alive /\ Ready
    /\ \E pos \in Positions : Call("Get", pos, NoArgs, Get(S, pos))

DoIsInUse ==
    /\ alive /\ Ready
    /\ \E pos \in Positions :
          Call("IsInUse", pos, NoArgs, Outcome(S, "OK", {}, IsInUse(S, pos), << >>))

DoUnUse ==
    /\ alive /\ Ready
    /\ \E pos \in Positions, args \in ArgLists : Call("UnUse", pos, args, UnUse(S, pos, args))

\* the cap keeps objectsInUse bounded: a Replace of a slot that is in use
\* is only taken while the counter is less than MaxLeak ahead of the flags
DoReplace ==
    /\ alive /\ Ready
    /\ \E pos \in Positions, args \in ArgLists :
          /\ IsInUse(S, pos) => objectsInUse - InUseCount(S) < MaxLeak
          /\ Call("Replace", pos, args, Replace(S, pos, args))

\* the caller writes the element through operator[] or a returned pointer
DoWrite ==
    /\ alive /\ Ready
    /\ \E pos \in 0 .. poolSize - 1, v \in Values :
          Call("Write", pos, <<v>>,
               Outcome([S EXCEPT !.pool[pos].object = v], "OK", {pos}, FALSE, << >>))

\* a range-based for loop over the pool, reading or overwriting each element
DoRangeFor ==
    /\ alive /\ Ready
    /\ \E w \in ArgLists :
          LET f == RangeFor(S, w)
          IN  CallV("RangeFor", 0, w, Outcome(f.s, "OK", {}, FALSE, << >>), f.visited)

\* ~CObjectPool
DoDestroy ==
    /\ alive /\ Ready
    /\ alive' = FALSE
    /\ live' = DestroyAll(live, poolSize, 0)
    /\ last' = [op |-> "~CObjectPool", pos |-> 0, args |-> NoArgs, res |-> "OK", ret |-> {},
                flag |-> FALSE, writable |-> FALSE, events |-> << >>, visited |-> << >>,
                pre |-> S]
    /\ run' = RunAfter("~CObjectPool")
    /\ UNCHANGED <<poolSize, nextIdx, objectsInUse, pool, found_pos, lock, held>>

\* the caller has looked at the result of the call and drops it
Return ==
    /\ alive /\ ~ Ready
    /\ last' = [op |-> "none", pos |-> 0, args |-> NoArgs, res |-> "OK", ret |-> {},
                flag |-> FALSE, writable |-> FALSE, events |-> << >>, visited |-> << >>,
                pre |-> S]
    /\ UNCHANGED <<poolSize, nextIdx, objectsInUse, pool, live, alive, found_pos, run,
                   lock, held>>

Next ==
    \/ Return
    \/ DoUse
    \/ DoUseNext
    \/ DoUseNextReplace
    \/ DoGet
    \/ DoIsInUse
    \/ DoUnUse
    \/ DoReplace
    \/ DoWrite
    \/ DoRangeFor
    \/ DoDestroy

Spec == Init /\ [][Next]_vars

\* ---- callers that never call Replace on a slot that is in use ----
DoReplaceFree ==
    /\ alive /\ Ready
    /\ \E pos \in Positions, args \in ArgLists :
          /\ ~ IsInUse(S, pos)
          /\ Call("Replace", pos, args, Replace(S, pos, args))

NextReplaceFree ==
    \/ Return
    \/ DoUse
    \/ DoUseNext
    \/ DoUseNextReplace
    \/ DoGet
    \/ DoIsInUse
    \/ DoUnUse
    \/ DoReplaceFree
    \/ DoWrite
    \/ DoRangeFor
    \/ DoDestroy

SpecReplaceFree == Init /\ [][NextReplaceFree]_vars

\* ---- callers that also remove elements while they iterate ----
DoRangeForUnUse ==
    /\ alive /\ Ready
    /\ \E rm \in SUBSET {i \in 0 .. poolSize - 1 : pool[i].bInUse} :
          LET f == RangeForUnUse(S, rm)
          IN  CallV("RangeForUnUse", 0, NoArgs,
                    Outcome(f.s, "OK", f.it.pObject, FALSE, f.events), f.visited)

NextRemoveInLoop ==
    \/ Next
    \/ DoRangeForUnUse

SpecRemoveInLoop == Init /\ [][NextRemoveInLoop]_vars

\* ---- callers that fill the pool: one call per free slot and one more ----
DoFill ==
    /\ alive /\ Ready
    /\ \E mode \in 0 .. 2 :
          LET n == Cardinality({i \in 0 .. poolSize - 1 : ~ pool[i].bInUse}) + 1
              o == Fill(S, n, mode)
          IN  CallV("Fill", n, IF mode = 0 THEN NoArgs ELSE <<MaxVal>>,
                    Outcome(o[n].s, o[n].res, o[n].ret, FALSE, FillEvents(o, n)),
                    FillReturned(o, n))

NextFill ==
    \/ Next
    \/ DoFill

SpecFill == Init /\ [][NextFill]_vars

\* ---- several threads sharing the pool under one external lock ----
Threads == 1 .. MaxThreads

\* the element values play no part in who gets which slot: the shared pool
\* is default-constructed and the threads construct elements without arguments
InitThreads == Init /\ last.args = NoArgs

\* the thread that constructed the pool drops the result and shares the pool
Share ==
    /\ lock = 0
    /\ last.op = "CObjectPool"
    /\ Return

Acquire(t) ==
    /\ alive /\ Ready
    /\ lock = 0
    /\ lock' = t
    /\ UNCHANGED <<poolSize, nextIdx, objectsInUse, pool, live, alive, found_pos, last, run,
                   held>>

\* a successful activation hands its slot to the calling thread; a successful
\* UnUse or Replace on a slot takes it back from whoever had it
HeldAfter(t, op, pos, r) ==
    IF r.res # "OK" THEN held
    ELSE IF op \in {"Use", "UseNext", "UseNextReplace"}
    THEN [i \in DOMAIN held |-> IF i \in r.ret THEN Append(held[i], t) ELSE held[i]]
    ELSE [i \in DOMAIN held |-> IF i = pos THEN << >> ELSE held[i]]

\* one call made by thread t while it holds the lock
LockedCall(t, op, pos, args, r) ==
    /\ alive /\ Ready
    /\ lock = t
    /\ Apply(op, pos, args, r, << >>)
    /\ held' = HeldAfter(t, op, pos, r)
    /\ UNCHANGED lock

ThreadUse(t) ==
    \E pos \in Positions : LockedCall(t, "Use", pos, NoArgs, Use(S, pos))

ThreadUseNext(t) ==
    LockedCall(t, "UseNext", 0, NoArgs, UseNext(S))

ThreadUseNextReplace(t) ==
    LockedCall(t, "UseNextReplace", 0, NoArgs, UseNextReplace(S, NoArgs))

ThreadUnUse(t) ==
    \E pos \in Positions : LockedCall(t, "UnUse", pos, NoArgs, UnUse(S, pos, NoArgs))

ThreadReplace(t) ==
    \E pos \in Positions :
        /\ IsInUse(S, pos) => objectsInUse - InUseCount(S) < MaxLeak
        /\ LockedCall(t, "Replace", pos, NoArgs, Replace(S, pos, NoArgs))

\* the thread has its result and gives the lock back
Release(t) ==
    /\ alive /\ ~ Ready
    /\ lock = t
    /\ lock' = 0
    /\ last' = [op |-> "none", pos |-> 0, args |-> NoArgs, res |-> "OK", ret |-> {},
                flag |-> FALSE, writable |-> FALSE, events |-> << >>, visited |-> << >>,
                pre |-> S]
    /\ UNCHANGED <<poolSize, nextIdx, objectsInUse, pool, live, alive, found_pos, run,
                   held>>

NextThreads ==
    \/ Share
    \/ \E t \in Threads :
          \/ Acquire(t)
          \/ ThreadUse(t)
          \/ ThreadUseNext(t)
          \/ ThreadUseNextReplace(t)
          \/ ThreadUnUse(t)
          \/ ThreadReplace(t)
          \/ Release(t)

SpecThreads == InitThreads /\ [][NextThreads]_vars

TypeOK ==
    /\ poolSize \in Sizes
    /\ alive \in BOOLEAN
    /\ DOMAIN pool = 0 .. poolSize - 1
    /\ \A i \in DOMAIN pool : pool[i].bInUse \in BOOLEAN /\ pool[i].object \in Values

\* ---- properties ----
\* the value a T constructed from an argument pack is expected to have
Expected(args) == IF args = NoArgs THEN DefaultValue ELSE args[1]

Slots == 0 .. poolSize - 1
Returned(op) == last.op = op
Succeeded(op) == last.op = op /\ last.res = "OK"

\* C1: after any sequence of operations, ObjectsInUse() equals the number of
\* indices i in [0, Size()) for which IsInUse(i) is true
C1_CountEqualsFlags ==
    ObjectsInUse(S) = Cardinality({i \in 0 .. Size(S) - 1 : IsInUse(S, i)})

\* C2: after any sequence of operations, 0 <= ObjectsInUse() <= Size()
C2_CountWithinCapacity ==
    0 <= ObjectsInUse(S) /\ ObjectsInUse(S) <= Size(S)

\* C3: Replace(index, args...) returns OutOfRange iff index >= capacity; for
\* every index < capacity it succeeds whether the slot was active or free,
\* and then the slot is free and its element is the value built from args
\* (the default value when there are none)
C3_Replace ==
    Returned("Replace") =>
        /\ last.res \in {"OK", "OUT_OF_RANGE"}
        /\ (last.res = "OUT_OF_RANGE") <=> (last.pos >= poolSize)
        /\ last.pos < poolSize =>
              /\ last.res = "OK"
              /\ ~ IsInUse(S, last.pos)
              /\ pool[last.pos].object = Expected(last.args)

\* Replace() without arguments succeeded on an active slot holding a value
\* other than the default
C3_Witness ==
    /\ Succeeded("Replace")
    /\ last.args = NoArgs
    /\ last.pre.pool[last.pos].bInUse
    /\ last.pre.pool[last.pos].object # DefaultValue

\* C4: every slot's element is constructed exactly once at pool creation,
\* every reconstruction is one destruction followed by one construction, and
\* pool destruction destroys every element exactly once: one live element per
\* slot while the pool exists, none after it is destroyed
C4_OneLiveElementPerSlot ==
    /\ alive => \A i \in Slots : live[i] = 1
    /\ (last.op \in {"Replace", "UnUse", "UseNextReplace"} /\ last.res = "OK")
          => last.events = <<"destroy", "construct">>
    /\ ~ alive => \A i \in Slots : live[i] = 0

\* C5: whenever an operation returns an error, the whole pool state (flags,
\* elements, ObjectsInUse(), search cursor) and the caller's out index are
\* what they were before the call
C5_ErrorChangesNothing ==
    (last.op \in {"Use", "UseNext", "UseNextReplace", "Get", "UnUse", "Replace"}
        /\ last.res # "OK")
    => /\ S = last.pre
       /\ last.ret = {}
       /\ last.events = << >>

\* UseNext failed on a full pool while the out index was not the last slot
C5_Witness ==
    /\ Returned("UseNext")
    /\ last.res = "FULL"
    /\ poolSize >= 2
    /\ found_pos # poolSize - 1

\* C6: Use(index) returns OutOfRange iff index >= capacity, AlreadyInUse iff
\* index < capacity and the slot is active, and otherwise succeeds, returning
\* the element of slot index, with IsInUse(index) true and ObjectsInUse()
\* one more than before
C6_Use ==
    Returned("Use") =>
        /\ (last.res = "OUT_OF_RANGE") <=> (last.pos >= poolSize)
        /\ (last.res = "ALREADY_IN_USE")
              <=> (last.pos < poolSize /\ last.pre.pool[last.pos].bInUse)
        /\ (last.pos < poolSize /\ ~ last.pre.pool[last.pos].bInUse) =>
              /\ last.res = "OK"
              /\ last.ret = {last.pos}
              /\ IsInUse(S, last.pos)
              /\ ObjectsInUse(S) = ObjectsInUse(last.pre) + 1

\* Use succeeded on a slot other than the first while another slot was active
C6_Witness ==
    /\ Succeeded("Use")
    /\ last.pos > 0
    /\ ObjectsInUse(S) >= 2

\* C7: a successful Use or UseNext reconstructs nothing: every slot's
\* element is what it was before the call, and the flag of every slot other
\* than the activated one is unchanged
C7_UseKeepsElements ==
    (last.op \in {"Use", "UseNext"} /\ last.res = "OK") =>
        /\ \A i \in Slots : pool[i].object = last.pre.pool[i].object
        /\ \A i \in Slots \ last.ret : pool[i].bInUse = last.pre.pool[i].bInUse
        /\ live = last.pre.live
        /\ last.events = << >>

\* UseNext handed out a slot whose element is not the default value
C7_Witness ==
    /\ Succeeded("UseNext")
    /\ \E i \in last.ret : pool[i].object # DefaultValue
    /\ \E i \in Slots \ last.ret : pool[i].bInUse

\* C8: UnUse(index, args...) returns OutOfRange iff index >= capacity,
\* AlreadyUnused iff index < capacity and the slot is free, and otherwise
\* succeeds with IsInUse(index) false and ObjectsInUse() one less than before
C8_UnUse ==
    Returned("UnUse") =>
        /\ (last.res = "OUT_OF_RANGE") <=> (last.pos >= poolSize)
        /\ (last.res = "ALREADY_UNUSED")
              <=> (last.pos < poolSize /\ ~ last.pre.pool[last.pos].bInUse)
        /\ (last.pos < poolSize /\ last.pre.pool[last.pos].bInUse) =>
              /\ last.res = "OK"
              /\ ~ IsInUse(S, last.pos)
              /\ ObjectsInUse(S) + 1 = ObjectsInUse(last.pre)

\* UnUse with arguments succeeded while another slot stayed active
C8_Witness ==
    /\ Succeeded("UnUse")
    /\ last.args # NoArgs
    /\ ObjectsInUse(S) >= 1

\* C9: after a successful UnUse(i, args...) the element of slot i is the
\* value built from args (the default value when there are none), whatever
\* it was before; a following Use(i), or a UseNext that returns i, hands
\* back that value
C9_UnUseResets ==
    Succeeded("UnUse") =>
        /\ pool[last.pos].object = Expected(last.args)
        /\ LET u == Use(S, last.pos)
           IN  /\ u.res = "OK"
               /\ u.ret = {last.pos}
               /\ u.s.pool[last.pos].object = Expected(last.args)
        /\ LET n == UseNext(S)
           IN  n.ret = {last.pos} => n.s.pool[last.pos].object = Expected(last.args)

\* UnUse succeeded on a slot whose element differed from the reset value,
\* and the next UseNext hands that slot out again
C9_Witness ==
    /\ Succeeded("UnUse")
    /\ last.pre.pool[last.pos].object # Expected(last.args)
    /\ UseNext(S).ret = {last.pos}

\* C10: Get(index) returns OutOfRange iff index >= capacity, NotInUse iff
\* index < capacity and the slot is free, and otherwise returns the element
\* of slot index; in all three cases no pool state changes
C10_Get ==
    Returned("Get") =>
        /\ (last.res = "OUT_OF_RANGE") <=> (last.pos >= poolSize)
        /\ (last.res = "NOT_IN_USE") <=> (last.pos < poolSize /\ ~ pool[last.pos].bInUse)
        /\ (last.pos < poolSize /\ pool[last.pos].bInUse) =>
              (last.res = "OK" /\ last.ret = {last.pos})
        /\ S = last.pre

\* Get succeeded on an active slot while another slot was free
C10_Witness ==
    /\ Succeeded("Get")
    /\ \E i \in Slots : ~ pool[i].bInUse

\* C11: IsInUse(index) returns false for every index >= capacity and the
\* slot's flag for every index < capacity, and changes no pool state
C11_IsInUse ==
    Returned("IsInUse") =>
        /\ last.res = "OK"
        /\ last.pos >= poolSize => last.flag = FALSE
        /\ last.pos < poolSize => last.flag = pool[last.pos].bInUse
        /\ S = last.pre

\* IsInUse answered false for the first out-of-range index of a pool with an
\* active slot
C11_Witness ==
    /\ Returned("IsInUse")
    /\ last.pos = poolSize
    /\ last.flag = FALSE
    /\ \E i \in Slots : pool[i].bInUse

FreeBefore == {i \in Slots : ~ last.pre.pool[i].bInUse}
FindsNext == last.op \in {"UseNext", "UseNextReplace"}

\* C12: UseNext and UseNextReplace return Full iff every slot is active at
\* the time of the call; with a free slot they succeed, wherever the search
\* cursor is
C12_FullIffAllActive ==
    FindsNext =>
        /\ last.res \in {"OK", "FULL"}
        /\ (last.res = "FULL") <=> (FreeBefore = {})

\* the call succeeded although the search cursor was on an active slot
C12_Witness ==
    /\ FindsNext
    /\ last.res = "OK"
    /\ last.pre.pool[last.pre.nextIdx].bInUse

\* C13: on success the index written to the out parameter is (c + d) mod N
\* for the smallest d in [0, N) such that slot (c + d) mod N is free, with c
\* the cursor before the call and N the capacity
C13_FirstFreeFromCursor ==
    (FindsNext /\ last.res = "OK") =>
        LET c == last.pre.nextIdx
            N == poolSize
        IN  \E d \in 0 .. N - 1 :
                /\ found_pos = (c + d) % N
                /\ last.ret = {found_pos}
                /\ (c + d) % N \in FreeBefore
                /\ \A e \in 0 .. d - 1 : (c + e) % N \notin FreeBefore

\* the call returned a free slot that was not the lowest free index
C13_Witness ==
    /\ FindsNext
    /\ last.res = "OK"
    /\ \E i \in FreeBefore : i < found_pos

\* C14: a successful UseNext that writes index f leaves the flags, elements,
\* ObjectsInUse() and search cursor that Use(f) leaves from the same prior
\* state, and both return the element of slot f
C14_UseNextIsUse ==
    Succeeded("UseNext") =>
        LET u == Use(last.pre, found_pos)
        IN  /\ u.res = "OK"
            /\ u.ret = last.ret
            /\ u.ret = {found_pos}
            /\ u.s.pool = pool
            /\ u.s.objectsInUse = objectsInUse
            /\ u.s.nextIdx = nextIdx

\* UseNext succeeded and moved the search cursor
C14_Witness ==
    /\ Succeeded("UseNext")
    /\ nextIdx # last.pre.nextIdx
    /\ ObjectsInUse(S) >= 2

\* C15: a successful UseNextReplace(out f, args...) leaves the flags,
\* elements, ObjectsInUse() and search cursor that Replace(f, args...)
\* followed by Use(f) leaves from the same prior state, and both return the
\* element of slot f
C15_UseNextReplaceIsReplaceUse ==
    Succeeded("UseNextReplace") =>
        LET r == Replace(last.pre, found_pos, last.args)
            u == Use(r.s, found_pos)
        IN  /\ r.res = "OK"
            /\ u.res = "OK"
            /\ u.ret = last.ret
            /\ u.ret = {found_pos}
            /\ u.s.pool = pool
            /\ u.s.objectsInUse = objectsInUse
            /\ u.s.nextIdx = nextIdx

\* UseNextReplace with arguments succeeded and moved the search cursor
C15_Witness ==
    /\ Succeeded("UseNextReplace")
    /\ last.args # NoArgs
    /\ nextIdx # last.pre.nextIdx

\* C16: the element returned by a successful UseNextReplace(out f, args...)
\* is the value built from args (the default value when there are none),
\* whatever slot f held before the call
C16_UseNextReplaceFresh ==
    Succeeded("UseNextReplace") =>
        /\ last.ret = {found_pos}
        /\ pool[found_pos].object = Expected(last.args)

\* UseNextReplace succeeded on a slot that held another value before
C16_Witness ==
    /\ Succeeded("UseNextReplace")
    /\ last.args # NoArgs
    /\ last.pre.pool[found_pos].object # Expected(last.args)

\* C17: if exactly one slot k is free, the next UseNext or UseNextReplace
\* succeeds and returns k, for every value of the search cursor
C17_OnlyFreeSlotIsFound ==
    (FindsNext /\ Cardinality(FreeBefore) = 1) =>
        /\ last.res = "OK"
        /\ last.ret = FreeBefore
        /\ {found_pos} = FreeBefore

\* the only free slot was a middle slot lying before the search cursor
C17_Witness ==
    /\ FindsNext
    /\ \E k \in Slots : /\ FreeBefore = {k}
                        /\ 0 < k
                        /\ k < poolSize - 1
                        /\ k < last.pre.nextIdx
    /\ last.res = "OK"

\* C18: on a freshly constructed pool of capacity N, the n-th of N
\* consecutive UseNext or UseNextReplace calls succeeds and returns index
\* n - 1, and the (N+1)-th call returns Full
C18_FreshFillOrder ==
    (run.fresh /\ run.calls >= 1 /\ ~ Ready) =>
        /\ FindsNext
        /\ run.calls <= poolSize =>
              /\ last.res = "OK"
              /\ last.ret = {run.calls - 1}
              /\ found_pos = run.calls - 1
        /\ run.calls = poolSize + 1 => last.res = "FULL"

\* the fourth consecutive call on a fresh pool of capacity three returned Full
C18_Witness ==
    /\ run.fresh
    /\ poolSize >= 3
    /\ run.calls = poolSize + 1
    /\ last.res = "FULL"

\* C19: for a free in-range index i, Use(i) succeeds and an immediately
\* following Use(i) returns AlreadyInUse; for an active index i, UnUse(i)
\* succeeds and an immediately following UnUse(i) returns AlreadyUnused; the
\* second call leaves the state the first call left
C19_SecondCallFails ==
    /\ (Returned("Use") /\ last.pos < poolSize /\ ~ last.pre.pool[last.pos].bInUse) =>
          /\ last.res = "OK"
          /\ Use(S, last.pos).res = "ALREADY_IN_USE"
          /\ Use(S, last.pos).s = S
    /\ (Returned("UnUse") /\ last.pos < poolSize /\ last.pre.pool[last.pos].bInUse) =>
          /\ last.res = "OK"
          /\ \A a \in ArgLists :
                /\ UnUse(S, last.pos, a).res = "ALREADY_UNUSED"
                /\ UnUse(S, last.pos, a).s = S

\* UnUse with arguments succeeded, leaving a value other than the default in
\* the freed slot of a pool with several slots
C19_Witness ==
    /\ Succeeded("UnUse")
    /\ pool[last.pos].object # DefaultValue
    /\ poolSize >= 2

\* the active slots before the loop, in increasing order
RECURSIVE Ascending(_, _)
Ascending(set, from) ==
    IF from >= poolSize THEN << >>
    ELSE IF from \in set THEN <<from>> \o Ascending(set, from + 1)
    ELSE Ascending(set, from + 1)

\* C20: with no activation change during the traversal, iterating from
\* begin() until the iterator equals end() visits exactly the active slots,
\* each once, in strictly increasing index order, and then stops; writing to
\* the visited elements does not change which slots are visited
C20_TraversalVisitsActive ==
    Returned("RangeFor") =>
        /\ last.visited = Ascending({i \in Slots : last.pre.pool[i].bInUse}, 0)
        /\ \A i \in Slots : pool[i].bInUse = last.pre.pool[i].bInUse
        /\ \A i \in Slots :
              pool[i].object = IF pool[i].bInUse /\ last.args # NoArgs
                               THEN last.args[1]
                               ELSE last.pre.pool[i].object

\* a writing loop visited the first and the last slot and skipped the free
\* slot between them
C20_Witness ==
    /\ Returned("RangeFor")
    /\ last.args # NoArgs
    /\ last.visited = <<0, 2>>
    /\ poolSize = 3

\* C21: in every reachable state the number of elements yielded by a
\* complete begin()-to-end() traversal equals ObjectsInUse()
C21_TraversalCountIsObjectsInUse ==
    Len(RangeFor(S, NoArgs).visited) = ObjectsInUse(S)

\* The claims about iterators are stated on the states a reading loop over
\* the pool has just returned in: such a loop changes nothing, so every state
\* the pool can be in between two calls is one of them.
AfterReadLoop == last.op = "RangeFor" /\ last.args = NoArgs

\* the iterators a traversal of the current pool goes through, end() included
Traversal == {it \in IterChain(S, PoolBegin(S), poolSize) : it.currentPos <= poolSize}

\* C22: two iterators compare equal iff they reference the same element or
\* both reference none: end and default-constructed iterators are equal to
\* each other, an end iterator never equals an iterator positioned on an
\* element, two begin() iterators of an unchanged pool are equal, and
\* begin() == end() exactly when no slot is active
C22_IteratorEquality ==
    AfterReadLoop =>
        LET tr == Traversal
            e == PoolEnd(S)
        IN  /\ IterEqual(e, PoolEnd(S))
            /\ IterEqual(CIteratorDefault, CIteratorDefault)
            /\ IterEqual(CIteratorDefault, e)
            /\ \A a \in tr :
                  /\ a.currentPos < poolSize => ~ IterEqual(e, a)
                  /\ \A b \in tr \cup {e} :
                        /\ IterEqual(a, b) <=> (a.currentPos = b.currentPos)
                        /\ IterNotEqual(a, b) <=> ~ IterEqual(a, b)
            /\ (\A i \in Slots : pool[i].bInUse = last.pre.pool[i].bInUse)
                  => IterEqual(PoolBegin(last.pre), PoolBegin(S))
            /\ IterEqual(PoolBegin(S), e) <=> (\A i \in Slots : ~ pool[i].bInUse)

\* a loop went over two active slots, the first of them after a free slot
C22_Witness ==
    /\ AfterReadLoop
    /\ Len(last.visited) >= 2
    /\ last.visited[1] > 0

\* C23: right after construction with capacity N and arguments a, Size() is
\* N, ObjectsInUse() is 0, the search cursor is 0, no slot is in use and
\* every element is the value built from a; Size() stays N afterwards
C23_Construction ==
    /\ Returned("CObjectPool") =>
          /\ Size(S) = last.pos
          /\ ObjectsInUse(S) = 0
          /\ nextIdx = 0
          /\ \A i \in 0 .. last.pos - 1 :
                /\ ~ IsInUse(S, i)
                /\ pool[i].object = Expected(last.args)
          /\ DOMAIN pool = 0 .. last.pos - 1
    /\ poolSize = Size(last.pre)

Activated == {i \in Slots : ~ last.pre.pool[i].bInUse /\ pool[i].bInUse}
Freed == {i \in Slots : last.pre.pool[i].bInUse /\ ~ pool[i].bInUse}

\* C24: a slot goes from free to active only in a successful Use, UseNext
\* or UseNextReplace that returns it, and from active to free only in a
\* successful UnUse or Replace on it; every other call and every failing
\* call leaves all flags as they were, and a call changes at most one flag
C24_SlotStateMachine ==
    IF last.res = "OK" /\ last.op \in {"Use", "UseNext", "UseNextReplace"}
    THEN Activated \subseteq last.ret /\ Freed = {} /\ Cardinality(last.ret) = 1
    ELSE IF last.res = "OK" /\ last.op \in {"UnUse", "Replace"}
    THEN Activated = {} /\ Freed \subseteq {last.pos}
    ELSE \A i \in Slots : pool[i].bInUse = last.pre.pool[i].bInUse

\* UseNextReplace activated a slot while the search cursor was on an active slot
C24_Witness ==
    /\ Succeeded("UseNextReplace")
    /\ Activated = last.ret
    /\ last.pre.pool[last.pre.nextIdx].bInUse

\* C25: with several threads calling the pool, each call made while holding
\* one external lock, no slot is handed out twice: an index returned by a
\* successful activation is not returned by another successful activation
\* until UnUse or Replace has been called on it
C25_NoSlotHandedOutTwice ==
    \A i \in Slots : Len(held[i]) <= 1

\* a thread has just been handed a slot while the other thread holds
\* another slot
C25_Witness ==
    /\ last.op \in {"Use", "UseNext", "UseNextReplace"}
    /\ last.res = "OK"
    /\ lock \in Threads
    /\ \E i \in last.ret :
          /\ held[i] = <<lock>>
          /\ \E j \in Slots \ {i} : held[j] # << >> /\ held[j] # <<lock>>

\* C26 as stated: in every reachable state of a pool of any capacity N,
\* N = 0 included, 0 <= searchCursor < N
C26_CursorInRange ==
    0 <= nextIdx /\ nextIdx < poolSize

\* C26 as amended: for N >= 1 the search cursor satisfies
\* 0 <= searchCursor < N; for N = 0 it is 0
C26_CursorInRangeOrZero ==
    /\ poolSize >= 1 => (0 <= nextIdx /\ nextIdx < poolSize)
    /\ poolSize = 0 => nextIdx = 0

\* an activation left the search cursor on the last slot of a pool of
\* several slots
C26_Witness ==
    /\ last.op \in {"Use", "UseNext", "UseNextReplace"}
    /\ last.res = "OK"
    /\ poolSize >= 2
    /\ nextIdx = poolSize - 1

FreeNow == {i \in Slots : ~ pool[i].bInUse}

\* C27: right after a successful Use, UseNext or UseNextReplace, if a slot
\* is still free the search cursor is the first free slot in circular order
\* from its previous value; if the pool became full the cursor is unchanged
C27_CursorAfterActivation ==
    (last.op \in {"Use", "UseNext", "UseNextReplace"} /\ last.res = "OK") =>
        IF FreeNow = {}
        THEN nextIdx = last.pre.nextIdx
        ELSE \E d \in 0 .. poolSize - 1 :
                /\ nextIdx = (last.pre.nextIdx + d) % poolSize
                /\ nextIdx \in FreeNow
                /\ \A e \in 0 .. d - 1 : (last.pre.nextIdx + e) % poolSize \notin FreeNow

\* Use moved the search cursor to a free slot that is not the lowest free one
C27_Witness ==
    /\ Succeeded("Use")
    /\ nextIdx # last.pre.nextIdx
    /\ \E i \in FreeNow : i < nextIdx

\* C28: the scan loops of UseNext, UseNextReplace and UpdateNextIdx run at
\* most capacity iterations, and the iterator's skip over inactive slots
\* moves its cursor at most to capacity
C28_BoundedSearch ==
    /\ last.op \in {"UseNext", "UseNextReplace"} =>
          ScanCount(last.pre.pool, poolSize, last.pre.nextIdx, 0) <= poolSize
    /\ (last.op \in {"Use", "UseNext", "UseNextReplace"} /\ last.res = "OK") =>
          ScanCount(pool, poolSize, last.pre.nextIdx, 0) <= poolSize
    /\ AfterReadLoop =>
          /\ \A pos \in 0 .. poolSize :
                /\ pos <= SkipLoop(S, pos)
                /\ SkipLoop(S, pos) <= poolSize
          /\ \A it \in IterChain(S, PoolBegin(S), poolSize) :
                it.currentPos < poolSize => IterIncrement(S, it).currentPos <= poolSize
          /\ PoolEnd(S) \in IterChain(S, PoolBegin(S), poolSize)

\* a failed UseNext on a full pool of several slots: the scan went all round
C28_Witness ==
    /\ Returned("UseNext")
    /\ last.res = "FULL"
    /\ poolSize >= 2
    /\ ScanCount(last.pre.pool, poolSize, last.pre.nextIdx, 0) = poolSize

\* C29: a successful UnUse(i) or Replace(i) leaves the search cursor and
\* the flag and element of every slot j # i as they were
C29_FreeTouchesOneSlot ==
    (last.op \in {"UnUse", "Replace"} /\ last.res = "OK") =>
        /\ nextIdx = last.pre.nextIdx
        /\ found_pos = last.pre.found_pos
        /\ \A j \in Slots \ {last.pos} : pool[j] = last.pre.pool[j]
        /\ \A j \in Slots \ {last.pos} : live[j] = last.pre.live[j]

\* UnUse freed a slot other than the one under the search cursor while
\* another slot stayed active
C29_Witness ==
    /\ Succeeded("UnUse")
    /\ last.pos # nextIdx
    /\ \E j \in Slots \ {last.pos} : pool[j].bInUse

\* C30: with no activation change, an iterator obtained from begin() by zero
\* or more advances either equals end() and references no element, or has
\* its cursor at an index < capacity whose slot is active and dereferences
\* to that slot's element
C30_IteratorPosition ==
    AfterReadLoop =>
        \A it \in IterChain(S, PoolBegin(S), poolSize + 1) :
            \/ /\ IterEqual(it, PoolEnd(S))
               /\ it.pObject = {}
            \/ /\ it.currentPos < poolSize
               /\ pool[it.currentPos].bInUse
               /\ IterNotEqual(it, PoolEnd(S))
               /\ IterDeref(it) = it.currentPos

\* a loop over a pool whose first slot is free and whose last slot is active
C30_Witness ==
    /\ AfterReadLoop
    /\ poolSize >= 2
    /\ ~ pool[0].bInUse
    /\ pool[poolSize - 1].bInUse

\* C31: in every reachable state ObjectsInUse() is at least the number of
\* slots in use, so the decrement of a successful UnUse never takes the
\* unsigned counter below zero
C31_CounterCoversFlags ==
    /\ ObjectsInUse(S) >= InUseCount(S)
    /\ Succeeded("UnUse") =>
          /\ ObjectsInUse(last.pre) >= 1
          /\ ObjectsInUse(S) = ObjectsInUse(last.pre) - 1
          /\ ObjectsInUse(S) # SizeMax

\* UnUse freed the only slot in use while the counter was ahead of the flags
C31_Witness ==
    /\ Succeeded("UnUse")
    /\ InUseCount(S) = 0
    /\ ObjectsInUse(S) >= 1

\* C32: when Replace is never called directly on a slot that is in use,
\* ObjectsInUse() equals the number of slots in use after every operation
C32_CountEqualsFlagsWithoutActiveReplace ==
    ObjectsInUse(S) = InUseCount(S)

\* Replace was called on a free slot while two other slots were in use
C32_Witness ==
    /\ Succeeded("Replace")
    /\ ~ last.pre.pool[last.pos].bInUse
    /\ InUseCount(S) >= 2

\* C33: from any reachable state with f free slots, f consecutive UseNext or
\* UseNextReplace calls all succeed and return pairwise distinct indices,
\* exactly the f slots that were free, and the call after them returns FULL
C33_FillsEveryFreeSlot ==
    Returned("Fill") =>
        LET free == {i \in Slots : ~ last.pre.pool[i].bInUse}
            f == Cardinality(free)
        IN  /\ last.pos = f + 1
            /\ Len(last.visited) = f
            /\ \A j, k \in 1 .. f : j # k => last.visited[j] # last.visited[k]
            /\ {last.visited[k] : k \in 1 .. f} = free
            /\ last.res = "FULL"
            /\ last.ret = {}
            /\ \A i \in Slots : pool[i].bInUse

\* a run that started with a slot in use and two free slots and in which a
\* higher index was returned before a lower one
C33_Witness ==
    /\ Returned("Fill")
    /\ InUseCount(last.pre) >= 1
    /\ Len(last.visited) >= 2
    /\ last.visited[1] > last.visited[2]

\* C34: when the caller of a begin()-to-end() loop calls UnUse on the slot the
\* iterator is on and then advances, the loop still visits every slot that
\* was in use at the start exactly once, in increasing index order, never
\* comes back to a freed slot, and reaches end()
C34_RemoveWhileIterating ==
    Returned("RangeForUnUse") =>
        /\ last.visited = Ascending({i \in Slots : last.pre.pool[i].bInUse}, 0)
        /\ last.ret = PoolEnd(S).pObject
        /\ Activated = {}
        /\ \A i \in Freed : \E k \in 1 .. Len(last.visited) :
              /\ last.visited[k] = i
              /\ \A j \in 1 .. Len(last.visited) : j # k => last.visited[j] # i
        /\ ObjectsInUse(S) + Cardinality(Freed) = ObjectsInUse(last.pre)
        /\ Len(last.events) = 2 * Cardinality(Freed)
        /\ \A i \in Slots \ Freed : pool[i] = last.pre.pool[i]

\* a loop over three slots in use removed the second one and went on to the third
C34_Witness ==
    /\ Returned("RangeForUnUse")
    /\ last.visited = <<0, 1, 2>>
    /\ Freed = {1}

====
